---- MODULE Spec2Model ----
(***************************************************************************)
(* Patch profile sources of DualBootPatcher (patchinfo): the three shipped  *)
(* profile modules (Gummy Google Apps, Broodplank's AOSP,                  *)
(* MaKTaiL's Google Edition), their filename matchers and descriptors,     *)
(* and the registry / dispatch pipeline that consumes them.                *)
(*                                                                         *)
(* Filenames are sequences of one-character strings.  A regular expression *)
(* is a sequence of elements (anchors, and quantified character sets) and  *)
(* re_search computes what Python's re.search computes for it.             *)
(***************************************************************************)
EXTENDS Naturals, Integers, Sequences, FiniteSets, TLC

VARIABLES file_info, registry, filename, evaluated, candidates, resolution,
          pc, calls, history

vars == <<file_info, registry, filename, evaluated, candidates, resolution,
          pc, calls, history>>

\* ------------------------------------------------------------------ bounds
\* longest run of free text between a profile's prefix and the extension
MaxText == 1
\* longest run of digits after "aosp"
MaxDigits == 2
\* how far the number of date digits after "gapps-kk-" strays from eight
DigitSlack == 1
\* number of module-level calls in one run of the call specification
MaxCalls == 3

\* ------------------------------------------------------------- characters
LF == "\n"
Slash == "/"
DigitChars == {"0", "1", "2", "3", "4", "5", "6", "7", "8", "9"}
None == "None"

\* --------------------------------------------------- Python's re.search
\* the upper bound of an unbounded quantifier (*, +)
Inf == 0 - 1

Bol == [t |-> "bol"]
Eol == [t |-> "eol"]
Lit(c) == [t |-> "set", kind |-> "lit", c |-> c, min |-> 1, max |-> 1]
Lits(s) == [i \in 1..Len(s) |-> Lit(s[i])]
Digit(lo, hi) == [t |-> "set", kind |-> "digit", c |-> "", min |-> lo, max |-> hi]
Dot(lo, hi) == [t |-> "set", kind |-> "dot", c |-> "", min |-> lo, max |-> hi]

\* does the one-character element e accept the character c
Accepts(e, c) ==
  CASE e.kind = "lit" -> c = e.c
    [] e.kind = "digit" -> c \in DigitChars
    [] e.kind = "dot" -> c # LF

\* the positions (numbers of characters consumed) after element e, from the
\* positions P before it
Step(e, s, P) ==
  IF e.t = "bol" THEN P \cap {0}
  ELSE IF e.t = "eol"
    THEN {p \in P : p = Len(s) \/ (p = Len(s) - 1 /\ s[Len(s)] = LF)}
  ELSE {q \in 0..Len(s) :
          \E p \in P : /\ q - p >= e.min
                       /\ (e.max = Inf \/ q - p <= e.max)
                       /\ \A k \in (p + 1)..q : Accepts(e, s[k])}

RECURSIVE Run(_, _, _, _)
Run(re, i, s, P) ==
  IF P = {} \/ i > Len(re) THEN P ELSE Run(re, i + 1, s, Step(re[i], s, P))

\* re.search(pattern, string) is not None
re_search(re, s) == Run(re, 1, s, 0..Len(s)) # {}

\* ------------------------------------------------------- string literals
S_aosp == <<"a", "o", "s", "p">>
S_i9505 == <<"-", "i", "9", "5", "0", "5", "-">>
S_gapps_kk == <<"g", "a", "p", "p", "s", "-", "k", "k", "-">>
S_ge_untouched ==
  <<"i", "9", "5", "0", "5", "-", "g", "e", "-",
    "u", "n", "t", "o", "u", "c", "h", "e", "d", "-">>
S_dot_zip == <<".", "z", "i", "p">>
S_zip == <<"z", "i", "p">>

\* ------------------------------------------------------- profile sources
Aosp == "aosp"
Ge == "ge-MaKTaiL"
Gummy == "gapps-gummy"
Sources == {Aosp, Ge, Gummy}

\* FileInfo(): the descriptor before a profile module fills it in
FileInfo ==
  [name |-> None, ramdisk |-> None, has_boot_image |-> TRUE,
   patch |-> None, extract |-> None]

\* the pattern with the quantifier of the digits forgotten: r"^aosp[0-9]-i9505-.*\.zip$"
AospFilenameRegexOneDigit ==
  <<Bol>> \o Lits(S_aosp) \o <<Digit(1, 1)>> \o Lits(S_i9505)
    \o <<Dot(0, Inf)>> \o Lits(S_dot_zip) \o <<Eol>>

\* r"^aosp[0-9]+-i9505-.*\.zip$"
AospFilenameRegex ==
  <<Bol>> \o Lits(S_aosp) \o <<Digit(1, Inf)>> \o Lits(S_i9505)
    \o <<Dot(0, Inf)>> \o Lits(S_dot_zip) \o <<Eol>>

\* the pattern of a module copied from aosp.py and never edited
GeFilenameRegexCopied ==
  <<Bol>> \o Lits(S_aosp) \o <<Digit(1, Inf)>> \o Lits(S_i9505)
    \o <<Dot(0, Inf)>> \o Lits(S_dot_zip) \o <<Eol>>

\* r"^i9505-ge-untouched-4.3-.*.zip$": neither dot is escaped
GeFilenameRegex ==
  <<Bol>> \o Lits(S_ge_untouched) \o <<Lit("4"), Dot(1, 1), Lit("3"), Lit("-")>>
    \o <<Dot(0, Inf), Dot(1, 1)>> \o Lits(S_zip) \o <<Eol>>

\* the number of digits of r"[0-9]{8}"
GummyDateLen == 8

\* the pattern with an open count: r"^gapps-kk-[0-9]{8,}\.zip$"
GummyFilenameRegexAtLeast ==
  <<Bol>> \o Lits(S_gapps_kk) \o <<Digit(GummyDateLen, Inf)>>
    \o Lits(S_dot_zip) \o <<Eol>>

\* the pattern with a two-digit year: r"^gapps-kk-[0-9]{6}\.zip$"
GummyFilenameRegexShortDate ==
  <<Bol>> \o Lits(S_gapps_kk) \o <<Digit(GummyDateLen - 2, GummyDateLen - 2)>>
    \o Lits(S_dot_zip) \o <<Eol>>

\* r"^gapps-kk-[0-9]{8}\.zip$"
GummyFilenameRegex ==
  <<Bol>> \o Lits(S_gapps_kk) \o <<Digit(GummyDateLen, GummyDateLen)>>
    \o Lits(S_dot_zip) \o <<Eol>>

\* the module-level assignments to file_info of each profile module
\* the two hooks assigned to each other's field
AospLoadSwapped ==
  [FileInfo EXCEPT !.name = "Broodplank's AOSP",
                   !.ramdisk = "jflte/AOSP/AOSP.def",
                   !.patch = "autopatcher.files_to_auto_patch",
                   !.extract = "autopatcher.auto_patch"]

AospLoad ==
  [FileInfo EXCEPT !.name = "Broodplank's AOSP",
                   !.ramdisk = "jflte/AOSP/AOSP.def",
                   !.patch = "autopatcher.auto_patch",
                   !.extract = "autopatcher.files_to_auto_patch"]

GeLoad ==
  [FileInfo EXCEPT !.name = "MaKTaiL's Google Edition",
                   !.ramdisk = "jflte/GoogleEdition/GoogleEdition.def",
                   !.patch = "autopatcher.auto_patch",
                   !.extract = "autopatcher.files_to_auto_patch"]

GummyLoad ==
  [FileInfo EXCEPT !.name = "Gummy Google Apps",
                   !.patch = "autopatcher.auto_patch",
                   !.extract = "autopatcher.files_to_auto_patch",
                   !.has_boot_image = FALSE]

Loaded == [src \in Sources |->
             CASE src = Aosp -> AospLoad
               [] src = Ge -> GeLoad
               [] src = Gummy -> GummyLoad]

\* def matches(filename) of each profile module
aosp_matches(f) == IF re_search(AospFilenameRegex, f) THEN TRUE ELSE FALSE

\* the two return statements exchanged
ge_matches_inverted(f) == IF re_search(GeFilenameRegex, f) THEN FALSE ELSE TRUE

ge_matches(f) == IF re_search(GeFilenameRegex, f) THEN TRUE ELSE FALSE

gummy_matches(f) == IF re_search(GummyFilenameRegex, f) THEN TRUE ELSE FALSE

\* def get_file_info() of each profile module
\* a new FileInfo() returned instead of the module's file_info
aosp_get_file_info_fresh == FileInfo

aosp_get_file_info == file_info[Aosp]

ge_get_file_info == file_info[Ge]

gummy_get_file_info == file_info[Gummy]

\* the two functions a profile source exposes to the registry
SourceMatches(src, f) ==
  CASE src = Aosp -> aosp_matches(f)
    [] src = Ge -> ge_matches(f)
    [] src = Gummy -> gummy_matches(f)

SourceGetFileInfo(src) ==
  CASE src = Aosp -> aosp_get_file_info
    [] src = Ge -> ge_get_file_info
    [] src = Gummy -> gummy_get_file_info

\* ------------------------------------------------------------ filenames
\* the inputs: [directory/] head text extension trailer
Seqs(A, n) == UNION {[1..k -> A] : k \in 0..n}

DigitOf(i) == <<"4", "2", "0", "7", "1", "9", "3", "8", "5", "6">>[(i % 10) + 1]
DigitRun(n) == [i \in 1..n |-> DigitOf(i - 1)]

DateDigit(i) == <<"2", "0", "1", "4", "0", "6", "1", "5">>[(i % 8) + 1]
DateRun(n) == [i \in 1..n |-> DateDigit(i - 1)]

Dirs ==
  {<<>>,
   <<"d", "l", "/">>,
   S_aosp \o <<"4">> \o S_i9505 \o S_dot_zip \o <<"/">>}

Heads ==
  {<<>>, <<"r", "f">>, <<"x">> \o S_aosp \o <<"4">> \o S_i9505}
    \cup {S_aosp \o DigitRun(n) \o S_i9505 : n \in 0..MaxDigits}
    \cup {S_gapps_kk \o DateRun(n) :
            n \in (GummyDateLen - DigitSlack)..(GummyDateLen + DigitSlack)}
    \cup {S_ge_untouched \o v \o <<"-">> :
            v \in {<<"4", ".", "3">>, <<"4", "x", "3">>, <<"4", "4", "3">>}}

TextChars == {"a", LF, Slash}
Texts == Seqs(TextChars, MaxText)

Exts == {<<>>, S_dot_zip, <<"x">> \o S_zip, <<".", "t", "a", "r">>}

Trailers == {<<>>, <<LF>>, <<"x">>}

Filenames ==
  {d \o h \o t \o e \o r :
     d \in Dirs, h \in Heads, t \in Texts, e \in Exts, r \in Trailers}

\* ------------------------------------------- matcher specification
NoResolution == [kind |-> "none"]

InitMatch ==
  /\ file_info = Loaded
  /\ registry = <<>>
  /\ filename \in Filenames
  /\ evaluated = {}
  /\ candidates = {}
  /\ resolution = NoResolution
  /\ pc = "Idle"
  /\ calls = <<>>
  /\ history = <<>>

\* one call matches(filename) of the profile source src
MatchesCall(src) ==
  /\ src \notin evaluated
  /\ evaluated' = evaluated \cup {src}
  /\ candidates' = IF SourceMatches(src, filename)
                     THEN candidates \cup {src} ELSE candidates
  /\ UNCHANGED <<file_info, registry, filename, resolution, pc, calls, history>>

NextMatch == \E src \in Sources : MatchesCall(src)

SpecMatch == InitMatch /\ [][NextMatch]_vars

\* ------------------------------------- registry and dispatch pipeline
Range(q) == {q[i] : i \in DOMAIN q}

\* the last component of a path: what follows its last separator
Basename(p) ==
  LET cuts == {i \in DOMAIN p : p[i] = Slash}
      last == IF cuts = {} THEN 0 ELSE CHOOSE i \in cuts : \A j \in cuts : j <= i
  IN SubSeq(p, last + 1, Len(p))

Init ==
  /\ file_info = Loaded
  /\ registry = <<>>
  /\ filename = <<>>
  /\ evaluated = {}
  /\ candidates = {}
  /\ resolution = NoResolution
  /\ pc = "Idle"
  /\ calls = <<>>
  /\ history = <<>>

\* register(descriptor), build phase: a source already registered is refused
Register(src) ==
  /\ resolution.kind = "none"
  /\ src \notin Range(registry)
  /\ registry' = Append(registry, src)
  /\ UNCHANGED <<file_info, filename, evaluated, candidates, resolution,
                 pc, calls, history>>

\* the outcome of resolve for the sources hits whose matcher accepted
ResolveOutcome(hits) ==
  IF hits = {} THEN [kind |-> "NoMatchingProfileError"]
  ELSE IF Cardinality(hits) = 1
    THEN [kind |-> "ok", descriptor |-> SourceGetFileInfo(CHOOSE s \in hits : TRUE)]
  ELSE [kind |-> "AmbiguousProfileError",
        identifiers |-> {SourceGetFileInfo(s).name : s \in hits}]

\* resolve(filename), read-only phase: every registered source's matcher is
\* evaluated on the basename
Resolve(f) ==
  /\ resolution.kind = "none"
  /\ Range(registry) = Sources
  /\ LET hits == {s \in Range(registry) : SourceMatches(s, Basename(f))}
     IN /\ filename' = f
        /\ evaluated' = Range(registry)
        /\ candidates' = hits
        /\ resolution' = ResolveOutcome(hits)
  /\ UNCHANGED <<file_info, registry, pc, calls, history>>

\* dispatch(descriptor, archive): the dispatch context is created
Create ==
  /\ resolution.kind = "ok"
  /\ pc = "Idle"
  /\ pc' = "Created"
  /\ UNCHANGED <<file_info, registry, filename, evaluated, candidates,
                 resolution, calls, history>>

\* step 1: extraction_behavior(archive); ok is whether the patch engine succeeds
Extract(ok) ==
  /\ pc = "Created"
  /\ calls' = Append(calls, [hook |-> "extract",
                             fn |-> resolution.descriptor.extract,
                             args |-> <<"archive">>])
  /\ pc' = IF ok THEN "Extracted" ELSE "Failed"
  /\ UNCHANGED <<file_info, registry, filename, evaluated, candidates,
                 resolution, history>>

\* step 2: patch_behavior(archive, EntrySet, ramdisk_reference, has_boot_image)
Patch(ok) ==
  /\ pc = "Extracted"
  /\ calls' = Append(calls, [hook |-> "patch",
                             fn |-> resolution.descriptor.patch,
                             args |-> <<"archive", "EntrySet",
                                        resolution.descriptor.ramdisk,
                                        resolution.descriptor.has_boot_image>>])
  /\ pc' = IF ok THEN "Patched" ELSE "Failed"
  /\ UNCHANGED <<file_info, registry, filename, evaluated, candidates,
                 resolution, history>>

\* step 3: the patched archive is returned
Finish ==
  /\ pc = "Patched"
  /\ pc' = "Done"
  /\ UNCHANGED <<file_info, registry, filename, evaluated, candidates,
                 resolution, calls, history>>

Next ==
  \/ \E src \in Sources : Register(src)
  \/ \E f \in Filenames : Resolve(f)
  \/ Create
  \/ \E ok \in BOOLEAN : Extract(ok)
  \/ \E ok \in BOOLEAN : Patch(ok)
  \/ Finish

Spec == Init /\ [][Next]_vars

\* ------------------------------------------------- call specification
\* arbitrary sequences of calls into the loaded profile modules
CallFilenames ==
  {<<>>,
   S_aosp \o <<"4">> \o S_i9505 \o S_dot_zip,
   S_gapps_kk \o DateRun(GummyDateLen) \o S_dot_zip,
   S_ge_untouched \o <<"4", ".", "3", "-">> \o S_dot_zip}

\* matches that keeps the name it was last asked about in the descriptor
CallMatchesCaching(src, f) ==
  /\ Len(history) < MaxCalls
  /\ history' = Append(history, [op |-> "matches", src |-> src, arg |-> f,
                                 result |-> SourceMatches(src, f)])
  /\ file_info' = [file_info EXCEPT ![src].name = f]
  /\ UNCHANGED <<registry, filename, evaluated, candidates, resolution, pc, calls>>

\* matches(filename) of the module src
CallMatches(src, f) ==
  /\ Len(history) < MaxCalls
  /\ history' = Append(history, [op |-> "matches", src |-> src, arg |-> f,
                                 result |-> SourceMatches(src, f)])
  /\ UNCHANGED <<file_info, registry, filename, evaluated, candidates,
                 resolution, pc, calls>>

\* get_file_info() of the module src
CallGetFileInfo(src) ==
  /\ Len(history) < MaxCalls
  /\ history' = Append(history, [op |-> "get_file_info", src |-> src, arg |-> <<>>,
                                 result |-> SourceGetFileInfo(src)])
  /\ UNCHANGED <<file_info, registry, filename, evaluated, candidates,
                 resolution, pc, calls>>

NextCalls ==
  \/ \E src \in Sources : \E f \in CallFilenames : CallMatches(src, f)
  \/ \E src \in Sources : CallGetFileInfo(src)

SpecCalls == Init /\ [][NextCalls]_vars

\* ------------------------------------------------- shapes of filenames
StartsWith(s, p) == Len(s) >= Len(p) /\ SubSeq(s, 1, Len(p)) = p
EndsWith(s, p) == Len(s) >= Len(p) /\ SubSeq(s, Len(s) - Len(p) + 1, Len(s)) = p
Has(s, c) == \E i \in DOMAIN s : s[i] = c
AllDigits(s) == \A i \in DOMAIN s : s[i] \in DigitChars
Plain(t) == ~Has(t, LF) /\ ~Has(t, Slash)

\* the texts t with s = "aosp" digits "-i9505-" t ".zip", one digit or more
AospTexts(s) ==
  {SubSeq(s, Len(S_aosp) + n + Len(S_i9505) + 1, Len(s) - Len(S_dot_zip)) :
     n \in {m \in 1..Len(s) :
              /\ Len(s) >= Len(S_aosp) + m + Len(S_i9505) + Len(S_dot_zip)
              /\ StartsWith(s, S_aosp)
              /\ AllDigits(SubSeq(s, Len(S_aosp) + 1, Len(S_aosp) + m))
              /\ SubSeq(s, Len(S_aosp) + m + 1, Len(S_aosp) + m + Len(S_i9505)) = S_i9505
              /\ EndsWith(s, S_dot_zip)}}

\* the texts t with s = "i9505-ge-untouched-" v "-" t ".zip"
GeTexts(s, v) ==
  LET head == S_ge_untouched \o v \o <<"-">>
  IN IF /\ Len(s) >= Len(head) + Len(S_dot_zip)
        /\ StartsWith(s, head)
        /\ EndsWith(s, S_dot_zip)
       THEN {SubSeq(s, Len(head) + 1, Len(s) - Len(S_dot_zip))}
       ELSE {}

V43 == <<"4", ".", "3">>
OtherVersions == {<<"4", "x", "3">>, <<"4", "4", "3">>}

\* s = "gapps-kk-" n digits ".zip"
GummyForm(s, n) ==
  /\ Len(s) = Len(S_gapps_kk) + n + Len(S_dot_zip)
  /\ StartsWith(s, S_gapps_kk)
  /\ AllDigits(SubSeq(s, Len(S_gapps_kk) + 1, Len(S_gapps_kk) + n))
  /\ EndsWith(s, S_dot_zip)

Conforms(src, s) ==
  CASE src = Aosp -> AospTexts(s) # {}
    [] src = Ge -> GeTexts(s, V43) # {}
    [] src = Gummy -> GummyForm(s, GummyDateLen)

Resolved == resolution.kind # "none"
ResolvedTo(src) == resolution.kind = "ok" /\ resolution.descriptor = file_info[src]
Matching(f) == {s \in Sources : SourceMatches(s, f)}

\* the outcome C1 describes for the set M of matching sources
OutcomeFor(M) ==
  /\ (resolution.kind = "ok") <=> (Cardinality(M) = 1)
  /\ \A s \in M : Cardinality(M) = 1 => resolution.descriptor = file_info[s]
  /\ M = {} => resolution.kind = "NoMatchingProfileError"
  /\ Cardinality(M) >= 2 =>
       /\ resolution.kind = "AmbiguousProfileError"
       /\ resolution.identifiers = {file_info[s].name : s \in M}

\* C1 as stated: with the three sources registered in any order, resolve(filename)
\* returns a descriptor iff exactly one source's matches(filename) is true, and
\* that source's descriptor; no match gives NoMatchingProfileError, two or more
\* AmbiguousProfileError naming every matching identifier.
C1_ResolveByFilename == Resolved => OutcomeFor(Matching(filename))

\* C1 amended: the same, with matches applied to the basename of the filename
\* (the registry strips the directory components before it calls the matcher).
C1_ResolveByBasename == Resolved => OutcomeFor(Matching(Basename(filename)))

C1_Witness ==
  /\ ResolvedTo(Ge)
  /\ Has(filename, Slash)
  /\ registry[1] = Aosp

\* C2: matches(filename) is true only if the whole filename conforms to the
\* profile's pattern, ending with the literal ".zip" and nothing after it.
C2_WholeFilenameConforms ==
  \A src \in candidates : Conforms(src, filename) /\ EndsWith(filename, S_dot_zip)

Prefixes(q) == {SubSeq(q, 1, n) : n \in 0..Len(q)}

\* C3: in every dispatch the extraction hook is invoked before the patch hook
\* and never after it, the patch hook is not invoked when extraction failed, and
\* the dispatch moves only forward through Created, Extracted, Patched, Done, or
\* to Failed from Created or Extracted.
C3_DispatchOrder ==
  [][/\ <<pc, pc'>> \in {<<"Idle", "Created">>, <<"Created", "Extracted">>,
                         <<"Extracted", "Patched">>, <<"Patched", "Done">>,
                         <<"Created", "Failed">>, <<"Extracted", "Failed">>}
          \cup {<<pc, pc>>}
     /\ calls \in Prefixes(calls')
     /\ [i \in DOMAIN calls' |-> <<calls'[i].hook, calls'[i].fn>>] \in
          Prefixes(<<<<"extract", "autopatcher.files_to_auto_patch">>,
                     <<"patch", "autopatcher.auto_patch">>>>)
     /\ Len(calls') = 2 => pc' \in {"Patched", "Done", "Failed"}
     /\ (pc = "Created" /\ pc' = "Failed") => Len(calls') = 1
     /\ pc \in {"Done", "Failed"} => pc' = pc /\ calls' = calls]_vars

C3_Witness == pc = "Done" /\ Len(calls) = 2 /\ resolution.descriptor = file_info[Aosp]

AospDescriptorOK ==
  /\ resolution.kind = "ok"
  /\ resolution.descriptor.name = "Broodplank's AOSP"
  /\ resolution.descriptor.ramdisk = "jflte/AOSP/AOSP.def"
  /\ resolution.descriptor.has_boot_image = TRUE

\* C4 as stated: every filename "aosp" digits "-i9505-" text ".zip" is matched by
\* the AOSP profile and resolves to a descriptor with ramdisk jflte/AOSP/AOSP.def
\* and has_boot_image true.
C4_AospAnyText ==
  (Resolved /\ AospTexts(filename) # {}) =>
     aosp_matches(filename) /\ AospDescriptorOK

\* C4 amended: the same for a text that holds no newline and no "/".
C4_AospPlainText ==
  (Resolved /\ \E t \in AospTexts(filename) : Plain(t)) =>
     aosp_matches(filename) /\ AospDescriptorOK

C4_Witness ==
  /\ AospDescriptorOK
  /\ \E t \in AospTexts(filename) : Plain(t) /\ t # <<>>
  /\ StartsWith(filename, S_aosp \o DigitRun(2))

\* C5: every filename "gapps-kk-" eight digits ".zip" is matched by the Gummy
\* Google Apps profile, whose descriptor has has_boot_image false and no ramdisk,
\* so the hooks run without ramdisk configuration; with fewer or more than eight
\* digits the filename is not matched.
C5_GummyEightDigits ==
  Resolved =>
    /\ GummyForm(filename, GummyDateLen) =>
         /\ gummy_matches(filename)
         /\ resolution.kind = "ok"
         /\ resolution.descriptor.name = "Gummy Google Apps"
         /\ resolution.descriptor.has_boot_image = FALSE
         /\ resolution.descriptor.ramdisk = None
         /\ \A i \in DOMAIN calls :
              calls[i].hook = "patch" => calls[i].args[3] = None /\ calls[i].args[4] = FALSE
    /\ \A n \in 0..Len(filename) :
         (n # GummyDateLen /\ GummyForm(filename, n)) =>
            ~gummy_matches(filename) /\ Gummy \notin candidates

C5_Witness ==
  /\ GummyForm(filename, GummyDateLen)
  /\ pc = "Done"
  /\ Len(calls) = 2
  /\ resolution.descriptor.name = "Gummy Google Apps"

\* C6: every filename "i9505-ge-untouched-4.3-" text ".zip" is matched by the
\* Google Edition profile and resolves to ramdisk
\* jflte/GoogleEdition/GoogleEdition.def; a filename whose version field is not
\* the literal "4.3" is not matched by this profile.
C6_GoogleEditionLiteralVersion ==
  Resolved =>
    /\ (\E t \in GeTexts(filename, V43) : Plain(t)) =>
         /\ ge_matches(filename)
         /\ resolution.kind = "ok"
         /\ resolution.descriptor.ramdisk = "jflte/GoogleEdition/GoogleEdition.def"
    /\ \A v \in OtherVersions :
         GeTexts(filename, v) # {} => ~ge_matches(filename) /\ Ge \notin candidates

\* C7: matches("") is false for each of the three sources, and resolving the
\* empty filename ends in the no-match outcome.
C7_EmptyFilename ==
  (Resolved /\ filename = <<>>) =>
     /\ evaluated = Sources
     /\ candidates = {}
     /\ resolution.kind = "NoMatchingProfileError"

C7_Witness == Resolved /\ filename = <<>> /\ resolution.kind = "NoMatchingProfileError"

AospDir == S_aosp \o <<"4">> \o S_i9505 \o S_dot_zip \o <<"/">>

\* C8: a filename with directory components is matched on its basename only: a
\* path whose last component a profile accepts resolves to that profile, and a
\* directory component that looks like a valid filename causes no match when the
\* basename does not match.
C8_BasenameOnly ==
  Resolved =>
    LET b == Basename(filename)
    IN /\ (\E t \in AospTexts(b) : Plain(t)) => ResolvedTo(Aosp)
       /\ (\E t \in GeTexts(b, V43) : Plain(t)) => ResolvedTo(Ge)
       /\ GummyForm(b, GummyDateLen) => ResolvedTo(Gummy)
       /\ Matching(b) = {} => resolution.kind = "NoMatchingProfileError"

C8_Witness ==
  /\ StartsWith(filename, AospDir)
  /\ GummyForm(Basename(filename), GummyDateLen)
  /\ ResolvedTo(Gummy)

\* C9: after any sequence of matches and get_file_info calls the descriptor
\* fields equal their values right after the module was loaded, every
\* get_file_info call returned that descriptor, and matches returned the same
\* result for the same filename on every call.
C9_PureAndImmutable ==
  /\ file_info = Loaded
  /\ \A i \in DOMAIN history :
       history[i].op = "get_file_info" => history[i].result = Loaded[history[i].src]
  /\ \A i, j \in DOMAIN history :
       (/\ history[i].op = "matches"
        /\ history[j].op = "matches"
        /\ history[i].src = history[j].src
        /\ history[i].arg = history[j].arg) => history[i].result = history[j].result

C9_Witness ==
  /\ Len(history) = 3
  /\ history[1].op = "matches" /\ history[1].result = TRUE
  /\ history[2].op = "get_file_info"
  /\ history[3] = history[1]

\* C10: for every filename at most one of the three matches functions returns
\* true, so the registry never reaches the ambiguous outcome, whatever the
\* registration order.
C10_Disjoint ==
  Resolved =>
    /\ Cardinality(candidates) <= 1
    /\ Cardinality(Matching(filename)) <= 1
    /\ resolution.kind # "AmbiguousProfileError"

C10_Witness ==
  /\ registry = <<Gummy, Ge, Aosp>>
  /\ candidates = {Aosp}
  /\ resolution.kind = "ok"

====
